---- MODULE Spec2Model ----
(***************************************************************************)
(* State-machine model of the proactivity toolkit: RateLimiter             *)
(* (src/src/RateLimiter.ts), TaskQueue (src/unnamed/part_000),             *)
(* StateManager (src/src/StateManager.ts) and HeartbeatManager             *)
(* (src/src/HeartbeatManager.ts).                                          *)
(*                                                                         *)
(* Time is in milliseconds.  Every configured duration and every clock     *)
(* advance is a multiple of 50 ms, so the 100 ms floors of the code are    *)
(* two clock steps.  A setTimeout is a countdown that the clock step       *)
(* decrements; its callback may run at any moment after it reached zero.   *)
(* JavaScript runs one job at a time: each action below is one job, from   *)
(* its start to its next await.                                            *)
(***************************************************************************)
EXTENDS Integers, Sequences, FiniteSets, TLC

VARIABLES
    now,          \* Date.now()
    config,       \* RateLimiter.config
    tokens,       \* RateLimiter.tokens
    lastRefill,   \* RateLimiter.lastRefill
    lastAcquire,  \* RateLimiter.lastAcquire
    apc,          \* per acquire() caller: "idle", "sleeping", "done"
    asleep,       \* per acquire() caller: ms left on its sleep() timer
    ret,          \* the last value returned by a RateLimiter method
    createdAt,    \* history: Date.now() at construction
    nTry,         \* history: number of tryAcquire() calls made
    nAdmits,      \* history: number of admissions granted
    lastAdmitAt,  \* history: Date.now() at the latest admission, -1 if none
    nRefilled,    \* history: tokens added by refill() so far
    queue,        \* TaskQueue.queue: the ids of the queued wrappers, in order
    running,      \* TaskQueue.running
    options,      \* TaskQueue: concurrency and delayMs as the constructor set them
    ist,          \* per item: "new", "queued", "running" (its work executes),
                  \*   "settled" (work over, process() not yet resumed),
                  \*   "delaying" (process() in its delayMs timer), "finished"
    handle,       \* per item: the promise add() returned
    outcome,      \* history, per item: how its work ended: "none" (not yet),
                  \*   "returned" or "threw"
    dtimer,       \* per item: ms left on process()'s delayMs timer
    nAdded,       \* history: number of add() calls; items are numbered by them
    started,      \* history: the items whose work began, in order
    dpc,          \* per drain() caller: "idle", "sleeping", "resolved"
    dsleep,       \* per drain() caller: ms left on its polling timer
    sinceDone,    \* history, kept by TQTimedSpec alone, per item: ms since
                  \*   its work ended, -1 before that, counted up to AgeCapMs
    sinceStart,   \* history, kept by TQTimedSpec alone, per item: ms since
                  \*   its work began, -1 before that, counted up to AgeCapMs
    admitTimes,   \* history, kept by RLRateSpec alone: Date.now() at the
                  \*   latest admissions, oldest first, capacity + 1 at most
    burst,        \* history, kept by RLBurstSpec alone: Date.now() at the
                  \*   admissions of the last intervalMs (recent), the ms
                  \*   since the latest refill that added tokens or, before
                  \*   it, since construction, counted up to intervalMs
                  \*   (age), and the admissions since then (since)
    twin,         \* kept by RLTwinSpec alone: the fields of a second
                  \*   RateLimiter of the same config, constructed at the same
                  \*   moment, and what its last tryAcquire() returned
    defaults,     \* StateManager.defaults
    file,         \* the file at StateManager.path
    tmp,          \* the file at StateManager.path + '.tmp'
    spc,          \* per StateManager caller: where its call stands
    sarg,         \* per StateManager caller: the state its set() writes
    sret,         \* per StateManager caller: what its last call returned
    checks,       \* the CheckConfig list passed to HeartbeatManager.run()
    hbpc,         \* HeartbeatManager.run(): "idle" or "running"
    hbNow,        \* run(): its `now`
    hbState,      \* run(): its `state`, read once at the start
    hbIdx,        \* run(): the position of its loop in checks
    hbAlerts,     \* run(): its `alerts`
    hbRet,        \* what the last run() returned
    hbOutcome     \* history, per check id: what run() last did with it:
                  \*   "none", "skipped", "true", "false" or "threw"

rlVars == <<config, tokens, lastRefill, lastAcquire, apc, asleep, ret,
            createdAt, nTry, nAdmits, lastAdmitAt, nRefilled>>

tqVars == <<queue, running, options, ist, handle, outcome, dtimer, nAdded,
            started, dpc, dsleep, sinceDone, sinceStart>>

smVars == <<defaults, file, tmp, spc, sarg, sret>>

hbVars == <<checks, hbpc, hbNow, hbState, hbIdx, hbAlerts, hbRet, hbOutcome>>

vars == <<now, rlVars, tqVars, admitTimes, burst, twin, smVars, hbVars>>

Min(a, b) == IF a <= b THEN a ELSE b
Max(a, b) == IF a >= b THEN a ELSE b

(***************************************************************************)
(* Bounds of the model.                                                    *)
(***************************************************************************)
MaxCapacity == 2      \* tokensPerInterval ranges over 1..MaxCapacity
NCallers == 2         \* concurrent acquire() callers
MaxTry == 3           \* tryAcquire() calls in a run
RLMaxTime == 500      \* the clock stops here

MaxItems == 3         \* add() calls in a run
MaxConcurrency == 2   \* options.concurrency ranges over 0..MaxConcurrency
NDrainers == 2        \* concurrent drain() callers

NSMCallers == 2       \* concurrent callers of a StateManager
HBMaxTime == 400      \* the clock of the heartbeat runs stops here

Callers == 1..NCallers
Items == 1..MaxItems
Drainers == 1..NDrainers
SMCallers == 1..NSMCallers
DelayOptions == {0, 100}      \* options.delayMs: 0 is "not given" (falsy)
DrainPollMs == 100            \* drain(): setTimeout(resolve, 100)
Steps == {50}                 \* clock advances
Intervals == {50, 200}        \* intervalMs: below and above the 100 ms floor
MinDelays == {0, 100}         \* minDelayMs: 0 is "not configured" (falsy)
StartTimes == {0, 200}        \* Date.now() at construction

SleepFloorMs == 100           \* Math.max(timeUntilRefill, 100)

SetMax(S) == CHOOSE x \in S : \A y \in S : y <= x

\* The longest single sleep of acquire()
MaxWaitMs == SetMax(Intervals \cup MinDelays \cup {SleepFloorMs})
\* In the fair specification, calls are made in the first CallWindowMs after
\* construction and the clock runs long enough for all of them to return.
CallWindowMs == SetMax(Steps) * MaxTry
RLLiveMaxTime ==
    SetMax(StartTimes) + CallWindowMs + (NCallers + 1) * 2 * MaxWaitMs

(***************************************************************************)
(* RateLimiter                                                             *)
(***************************************************************************)

\* No content: of a file that is absent or empty, of a call that returned
\* nothing, of the variables of an object that does not exist
NoData == << >>

\* No StateManager
SMUnused ==
    /\ defaults = NoData
    /\ file = NoData
    /\ tmp = NoData
    /\ spc = NoData
    /\ sarg = NoData
    /\ sret = NoData

\* No HeartbeatManager
HBUnused ==
    /\ checks = NoData
    /\ hbpc = NoData
    /\ hbNow = NoData
    /\ hbState = NoData
    /\ hbIdx = NoData
    /\ hbAlerts = NoData
    /\ hbRet = NoData
    /\ hbOutcome = NoData

\* No TaskQueue
TQUnused ==
    /\ queue = NoData
    /\ running = NoData
    /\ options = NoData
    /\ ist = NoData
    /\ handle = NoData
    /\ outcome = NoData
    /\ dtimer = NoData
    /\ nAdded = NoData
    /\ started = NoData
    /\ dpc = NoData
    /\ dsleep = NoData
    /\ sinceDone = NoData
    /\ sinceStart = NoData

\* constructor: tokens = tokensPerInterval, lastRefill = Date.now(),
\* lastAcquire = 0
RLNew ==
    /\ TQUnused
    /\ SMUnused
    /\ HBUnused
    /\ admitTimes = << >>
    /\ burst = [recent |-> << >>, age |-> 0, since |-> 0]
    /\ now \in StartTimes
    /\ config \in [tokensPerInterval : 1..MaxCapacity,
                   intervalMs : Intervals,
                   minDelayMs : MinDelays]
    /\ tokens = config.tokensPerInterval
    /\ lastRefill = now
    /\ lastAcquire = 0
    /\ apc = [p \in Callers |-> "idle"]
    /\ asleep = [p \in Callers |-> 0]
    /\ ret = [op |-> "new", val |-> 0]
    /\ createdAt = now
    /\ nTry = 0
    /\ nAdmits = 0
    /\ lastAdmitAt = -1
    /\ nRefilled = 0

RLInit == RLNew /\ twin = NoData

\* Fault: refill() without the Math.min cap.
refillNoCap ==
    LET elapsed == now - lastRefill IN
    IF elapsed >= config.intervalMs
    THEN LET intervals == elapsed \div config.intervalMs IN
         [tokens |-> tokens + intervals * config.tokensPerInterval,
          lastRefill |-> now]
    ELSE [tokens |-> tokens, lastRefill |-> lastRefill]

\* Fault: refill() that restores the bucket after half an interval.
refillHalfInterval ==
    LET elapsed == now - lastRefill IN
    IF 2 * elapsed >= config.intervalMs
    THEN [tokens |-> config.tokensPerInterval, lastRefill |-> now]
    ELSE [tokens |-> tokens, lastRefill |-> lastRefill]

\* Fault: refill() advancing lastRefill by the whole intervals only, so that
\* the time into the current interval is kept.
refillKeepsCredit ==
    LET elapsed == now - lastRefill IN
    IF elapsed >= config.intervalMs
    THEN LET intervals == elapsed \div config.intervalMs IN
         [tokens |-> Min(config.tokensPerInterval,
                         tokens + intervals * config.tokensPerInterval),
          lastRefill |-> lastRefill + intervals * config.intervalMs]
    ELSE [tokens |-> tokens, lastRefill |-> lastRefill]

\* Fault: refill() stamping the time the next refill is due.
refillStampsNextDue ==
    LET elapsed == now - lastRefill IN
    IF elapsed >= config.intervalMs
    THEN [tokens |-> config.tokensPerInterval,
          lastRefill |-> now + config.intervalMs]
    ELSE [tokens |-> tokens, lastRefill |-> lastRefill]

\* refill(): the pair (tokens, lastRefill) it leaves
refill ==
    LET elapsed == now - lastRefill IN
    IF elapsed >= config.intervalMs
    THEN LET intervals == elapsed \div config.intervalMs IN
         [tokens |-> Min(config.tokensPerInterval,
                         tokens + intervals * config.tokensPerInterval),
          lastRefill |-> now]
    ELSE [tokens |-> tokens, lastRefill |-> lastRefill]

\* Fault: the spacing test with <= for <.
acquireTooSoonInclusive ==
    /\ config.minDelayMs # 0
    /\ now - lastAcquire <= config.minDelayMs

\* acquire(), lines 41-43: the spacing test of one loop iteration
acquireTooSoon ==
    /\ config.minDelayMs # 0
    /\ now - lastAcquire < config.minDelayMs

\* Fault: tryAcquire()'s spacing test with <= for <.
tryAcquireTooSoonInclusive ==
    /\ config.minDelayMs # 0
    /\ now - lastAcquire <= config.minDelayMs

\* Fault: tryAcquire() without its spacing test.
tryAcquireNeverTooSoon == FALSE

\* tryAcquire(), lines 69-71: the spacing test
tryAcquireTooSoon ==
    /\ config.minDelayMs # 0
    /\ now - lastAcquire < config.minDelayMs

\* Fault: acquire() that admits without taking the token.
acquireTakeNoToken(t) == t

\* acquire(), line 50: this.tokens -= 1
acquireTakeToken(t) == t - 1

\* Fault: tryAcquire() that admits without taking the token.
tryAcquireTakeNoToken(t) == t

\* tryAcquire(), line 76: this.tokens -= 1
tryAcquireTakeToken(t) == t - 1

\* Fault: the spacing sleep set to the time passed, not the time left.
spacingSleepMsElapsed == now - lastAcquire

\* acquire(), line 44: the spacing sleep
spacingSleepMs == config.minDelayMs - (now - lastAcquire)

\* Fault: the empty-bucket sleep without its 100 ms floor.
refillSleepMsNoFloor(lr) == config.intervalMs - (now - lr)

\* acquire(), lines 56-57: the empty-bucket sleep, computed after refill()
refillSleepMs(lr) ==
    LET timeUntilRefill == config.intervalMs - (now - lr) IN
    Max(timeUntilRefill, SleepFloorMs)

\* One iteration of acquire()'s loop by caller p, up to its await or return.
acquireIteration(p) ==
    LET r == refill IN
    /\ lastRefill' = r.lastRefill
    /\ nRefilled' = nRefilled + (r.tokens - tokens)
    /\ IF acquireTooSoon
       THEN /\ tokens' = r.tokens
            /\ apc' = [apc EXCEPT ![p] = "sleeping"]
            /\ asleep' = [asleep EXCEPT ![p] = spacingSleepMs]
            /\ UNCHANGED <<lastAcquire, ret, nAdmits, lastAdmitAt>>
       ELSE IF r.tokens >= 1
       THEN /\ tokens' = acquireTakeToken(r.tokens)
            /\ lastAcquire' = now
            /\ apc' = [apc EXCEPT ![p] = "done"]
            /\ ret' = [op |-> "acquire", val |-> TRUE]
            /\ nAdmits' = nAdmits + 1
            /\ lastAdmitAt' = now
            /\ UNCHANGED asleep
       ELSE /\ tokens' = r.tokens
            /\ apc' = [apc EXCEPT ![p] = "sleeping"]
            /\ asleep' = [asleep EXCEPT ![p] = refillSleepMs(r.lastRefill)]
            /\ UNCHANGED <<lastAcquire, ret, nAdmits, lastAdmitAt>>
    /\ UNCHANGED <<now, config, createdAt, nTry, tqVars,
                   smVars, hbVars>>

\* A caller calls acquire(): the first iteration runs synchronously.
AcquireCall(p) ==
    /\ apc[p] = "idle"
    /\ acquireIteration(p)

\* A caller's sleep() timer has fired: the loop's next iteration.
AcquireWake(p) ==
    /\ apc[p] = "sleeping"
    /\ asleep[p] = 0
    /\ acquireIteration(p)

\* Fault: tryAcquire() taking the token before its spacing test.
TryAcquireEager ==
    /\ nTry < MaxTry
    /\ nTry' = nTry + 1
    /\ LET r == refill IN
       /\ lastRefill' = r.lastRefill
       /\ nRefilled' = nRefilled + (r.tokens - tokens)
       /\ IF r.tokens >= 1
          THEN /\ tokens' = r.tokens - 1
               /\ IF tryAcquireTooSoon
                  THEN /\ ret' = [op |-> "tryAcquire", val |-> FALSE]
                       /\ UNCHANGED <<lastAcquire, nAdmits, lastAdmitAt>>
                  ELSE /\ lastAcquire' = now
                       /\ ret' = [op |-> "tryAcquire", val |-> TRUE]
                       /\ nAdmits' = nAdmits + 1
                       /\ lastAdmitAt' = now
          ELSE /\ tokens' = r.tokens
               /\ ret' = [op |-> "tryAcquire", val |-> FALSE]
               /\ UNCHANGED <<lastAcquire, nAdmits, lastAdmitAt>>
    /\ UNCHANGED <<now, config, apc, asleep, createdAt, tqVars,
                   smVars, hbVars>>

\* tryAcquire()
TryAcquire ==
    /\ nTry < MaxTry
    /\ nTry' = nTry + 1
    /\ LET r == refill IN
       /\ lastRefill' = r.lastRefill
       /\ nRefilled' = nRefilled + (r.tokens - tokens)
       /\ IF r.tokens >= 1 /\ ~tryAcquireTooSoon
          THEN /\ tokens' = tryAcquireTakeToken(r.tokens)
               /\ lastAcquire' = now
               /\ ret' = [op |-> "tryAcquire", val |-> TRUE]
               /\ nAdmits' = nAdmits + 1
               /\ lastAdmitAt' = now
          ELSE /\ tokens' = r.tokens
               /\ ret' = [op |-> "tryAcquire", val |-> FALSE]
               /\ UNCHANGED <<lastAcquire, nAdmits, lastAdmitAt>>
    /\ UNCHANGED <<now, config, apc, asleep, createdAt, tqVars,
                   smVars, hbVars>>

\* Fault: getTokens() that takes a token it finds.
GetTokensConsumes ==
    /\ LET r == refill IN
       /\ lastRefill' = r.lastRefill
       /\ nRefilled' = nRefilled + (r.tokens - tokens)
       /\ tokens' = Max(0, r.tokens - 1)
       /\ ret' = [op |-> "getTokens", val |-> r.tokens]
    /\ UNCHANGED <<now, config, lastAcquire, apc, asleep, createdAt, nTry,
                   nAdmits, lastAdmitAt, tqVars,
                   smVars, hbVars>>

\* getTokens()
GetTokens ==
    /\ LET r == refill IN
       /\ lastRefill' = r.lastRefill
       /\ nRefilled' = nRefilled + (r.tokens - tokens)
       /\ tokens' = r.tokens
       /\ ret' = [op |-> "getTokens", val |-> r.tokens]
    /\ UNCHANGED <<now, config, lastAcquire, apc, asleep, createdAt, nTry,
                   nAdmits, lastAdmitAt, tqVars,
                   smVars, hbVars>>

\* The clock advances; running sleep() timers count down.
RLTick ==
    /\ \E d \in Steps :
        /\ now + d <= RLMaxTime
        /\ now' = now + d
        /\ asleep' = [p \in Callers |-> Max(0, asleep[p] - d)]
    /\ UNCHANGED <<config, tokens, lastRefill, lastAcquire, apc, ret,
                   createdAt, nTry, nAdmits, lastAdmitAt, nRefilled, tqVars,
                   smVars, hbVars>>

RLNext ==
    \/ \E p \in Callers : AcquireCall(p) /\ UNCHANGED <<admitTimes, burst, twin>>
    \/ \E p \in Callers : AcquireWake(p) /\ UNCHANGED <<admitTimes, burst, twin>>
    \/ TryAcquire /\ UNCHANGED <<admitTimes, burst, twin>>
    \/ GetTokens /\ UNCHANGED <<admitTimes, burst, twin>>
    \/ RLTick /\ UNCHANGED <<admitTimes, burst, twin>>

RLSpec == RLInit /\ [][RLNext]_vars

\* The specification that keeps the times of the latest admissions: a step
\* that grants an admission appends Date.now() and drops what is older than
\* the latest capacity + 1 admissions.
recordAdmission ==
    admitTimes' =
        IF nAdmits' = nAdmits THEN admitTimes
        ELSE LET log == Append(admitTimes, now)
                 keep == config.tokensPerInterval + 1
             IN IF Len(log) > keep THEN Tail(log) ELSE log

RLRateNext ==
    \/ \E p \in Callers : AcquireCall(p) /\ recordAdmission /\ UNCHANGED <<burst, twin>>
    \/ \E p \in Callers : AcquireWake(p) /\ recordAdmission /\ UNCHANGED <<burst, twin>>
    \/ TryAcquire /\ recordAdmission /\ UNCHANGED <<burst, twin>>
    \/ GetTokens /\ recordAdmission /\ UNCHANGED <<burst, twin>>
    \/ RLTick /\ recordAdmission /\ UNCHANGED <<burst, twin>>

RLRateSpec == RLInit /\ [][RLRateNext]_vars

\* The specification that keeps the history of bursts: a step that grants
\* an admission appends Date.now() to the recent admissions, a step whose
\* refill adds tokens starts the age and the count of admissions anew (the
\* admission of such a step comes after its refill), and admissions that
\* lie intervalMs or more before the clock are dropped.
recordBurst ==
    LET admitted == IF nAdmits' = nAdmits THEN 0 ELSE 1
        added == nRefilled' > nRefilled
        log == IF admitted = 1 THEN Append(burst.recent, now) ELSE burst.recent
    IN burst' =
         [recent |-> SelectSeq(log, LAMBDA t : t > now' - config.intervalMs),
          age |-> Min(config.intervalMs,
                      (IF added THEN 0 ELSE burst.age) + (now' - now)),
          since |-> IF added THEN admitted ELSE burst.since + admitted]

RLBurstNext ==
    \/ \E p \in Callers :
          AcquireCall(p) /\ recordBurst /\ UNCHANGED <<admitTimes, twin>>
    \/ \E p \in Callers :
          AcquireWake(p) /\ recordBurst /\ UNCHANGED <<admitTimes, twin>>
    \/ TryAcquire /\ recordBurst /\ UNCHANGED <<admitTimes, twin>>
    \/ GetTokens /\ recordBurst /\ UNCHANGED <<admitTimes, twin>>
    \/ RLTick /\ recordBurst /\ UNCHANGED <<admitTimes, twin>>

RLBurstSpec == RLInit /\ [][RLBurstNext]_vars

\* The specification of two runs side by side.  A second limiter is
\* constructed with the same config at the same moment and receives every
\* tryAcquire() call the first one receives, at the same clock value;
\* getTokens() is called on the first limiter alone.  Its methods are those
\* of the first, applied to the fields l of the second.
refillOf(l) ==
    LET elapsed == now - l.lastRefill IN
    IF elapsed >= config.intervalMs
    THEN LET intervals == elapsed \div config.intervalMs IN
         [l EXCEPT !.tokens = Min(config.tokensPerInterval,
                                  l.tokens + intervals * config.tokensPerInterval),
                   !.lastRefill = now]
    ELSE l

tryAcquireOf(l) ==
    LET r == refillOf(l)
        tooSoon == /\ config.minDelayMs # 0
                   /\ now - r.lastAcquire < config.minDelayMs
    IN IF r.tokens >= 1 /\ ~tooSoon
       THEN [r EXCEPT !.tokens = @ - 1, !.lastAcquire = now, !.returned = TRUE]
       ELSE [r EXCEPT !.returned = FALSE]

RLTwinInit ==
    /\ RLNew
    /\ twin = [tokens |-> config.tokensPerInterval, lastRefill |-> now,
               lastAcquire |-> 0, returned |-> FALSE]

RLTwinNext ==
    \/ TryAcquire /\ twin' = tryAcquireOf(twin) /\ UNCHANGED <<admitTimes, burst>>
    \/ GetTokens /\ UNCHANGED <<admitTimes, burst, twin>>
    \/ RLTick /\ UNCHANGED <<admitTimes, burst, twin>>

RLTwinSpec == RLTwinInit /\ [][RLTwinNext]_vars

\* The fair specification: finitely many calls, all made early; the clock
\* keeps advancing and a timer's callback runs when the timer is due.
InCallWindow == now - createdAt <= CallWindowMs

RLLiveTick ==
    /\ \E d \in Steps :
        /\ now + d <= RLLiveMaxTime
        /\ InCallWindow \/ \E p \in Callers : apc[p] = "sleeping"
        /\ \A p \in Callers : apc[p] = "sleeping" => asleep[p] >= d
        /\ now' = now + d
        /\ asleep' = [p \in Callers |-> Max(0, asleep[p] - d)]
    /\ UNCHANGED <<config, tokens, lastRefill, lastAcquire, apc, ret,
                   createdAt, nTry, nAdmits, lastAdmitAt, nRefilled, tqVars,
                   smVars, hbVars>>

RLLiveNext ==
    \/ \E p \in Callers :
          InCallWindow /\ AcquireCall(p) /\ UNCHANGED <<admitTimes, burst, twin>>
    \/ \E p \in Callers : AcquireWake(p) /\ UNCHANGED <<admitTimes, burst, twin>>
    \/ InCallWindow /\ TryAcquire /\ UNCHANGED <<admitTimes, burst, twin>>
    \/ InCallWindow /\ GetTokens /\ UNCHANGED <<admitTimes, burst, twin>>
    \/ RLLiveTick /\ UNCHANGED <<admitTimes, burst, twin>>

\* A limiter constructed at clock value 0 waits out minDelayMs before its
\* first admission, and admits at once when called later: the runs from 0
\* hold both cases.
RLLiveInit == RLInit /\ now = 0

RLLiveSpec ==
    /\ RLLiveInit
    /\ [][RLLiveNext]_vars
    /\ WF_vars(RLLiveTick /\ UNCHANGED <<admitTimes, burst, twin>>)
    /\ \A p \in Callers :
          WF_vars(AcquireWake(p) /\ UNCHANGED <<admitTimes, burst, twin>>)

(***************************************************************************)
(* RateLimiter: properties                                                 *)
(***************************************************************************)
capacity == config.tokensPerInterval
Admitted == nAdmits' = nAdmits + 1
Returned(p) == apc[p] # "done" /\ apc'[p] = "done"
TryAcquireCalled == nTry' = nTry + 1

\* C1: in every reachable state 0 <= tokens <= capacity, whatever the
\* interleaving of tryAcquire, acquire iterations, getTokens and clock steps.
C1_TokenBound == 0 <= tokens /\ tokens <= capacity

\* A refill has happened after admissions, while an acquire() caller sleeps.
C1_Witness ==
    /\ nRefilled > 0
    /\ nAdmits >= 2
    /\ tokens = capacity
    /\ \E p \in Callers : apc[p] = "sleeping"

\* C3: with minDelayMs = m > 0, every admission after the first comes at
\* least m after the admission before it, by whichever caller or method.
C3_Spacing ==
    [][(Admitted /\ config.minDelayMs > 0 /\ lastAdmitAt # -1)
          => now' - lastAdmitAt >= config.minDelayMs]_vars

\* Two acquire() callers and a tryAcquire() were admitted under spacing, and
\* tokens remain.
C3_Witness ==
    /\ config.minDelayMs > 0
    /\ \A p \in Callers : apc[p] = "done"
    /\ nAdmits > NCallers
    /\ tokens >= 1

\* C6: on a fresh limiter without minDelayMs, while less than intervalMs has
\* passed since construction and nothing but tryAcquire() has been called,
\* the i-th tryAcquire() returns true exactly when i <= capacity.
C6_BurstThenEmpty ==
    [][(/\ TryAcquireCalled
        /\ config.minDelayMs = 0
        /\ \A p \in Callers : apc[p] = "idle"
        /\ now - createdAt < config.intervalMs)
          => ret' = [op |-> "tryAcquire", val |-> (nTry' <= capacity)]]_vars

\* The call after the burst was just denied, inside the first interval.
C6_Witness ==
    /\ config.minDelayMs = 0
    /\ \A p \in Callers : apc[p] = "idle"
    /\ now - createdAt < config.intervalMs
    /\ nTry = capacity + 1
    /\ nAdmits = capacity
    /\ ret = [op |-> "tryAcquire", val |-> FALSE]

\* C7: without minDelayMs and with an empty bucket, tryAcquire() returns true
\* exactly when intervalMs has passed since lastRefill; and the admission
\* number capacity+1 comes no earlier than intervalMs after construction.
C7_RefillAfterInterval ==
    /\ [](nAdmits = capacity + 1
            => lastAdmitAt - createdAt >= config.intervalMs)
    /\ [][(TryAcquireCalled /\ config.minDelayMs = 0 /\ tokens = 0)
            => ret' = [op |-> "tryAcquire",
                       val |-> (now - lastRefill >= config.intervalMs)]]_vars

\* The bucket was emptied, a tryAcquire() was denied, and the one made a full
\* interval after construction was granted.
C7_Witness ==
    /\ config.minDelayMs = 0
    /\ config.intervalMs > SleepFloorMs
    /\ nAdmits = capacity + 1
    /\ nTry = capacity + 2
    /\ \A p \in Callers : apc[p] = "idle"
    /\ lastAdmitAt - createdAt = config.intervalMs
    /\ ret = [op |-> "tryAcquire", val |-> TRUE]

\* C8: acquire() returns only in a step that, after refill, finds a token and
\* the spacing satisfied, takes exactly one token and stamps lastAcquire;
\* every admission consumed a token of its own (tokens handed out so far =
\* the initial bucket plus what refill() added, minus what is left).
C8_AcquireConsumes ==
    /\ [](tokens >= 0 /\ nAdmits + tokens = capacity + nRefilled)
    /\ [][\A p \in Callers : Returned(p) =>
            /\ refill.tokens >= 1
            /\ (config.minDelayMs # 0 => now - lastAcquire >= config.minDelayMs)
            /\ tokens' = refill.tokens - 1
            /\ lastAcquire' = now]_vars

\* Capacity 1: both acquire() callers returned, the second one on the token
\* of a later refill.
C8_Witness ==
    /\ capacity = 1
    /\ nTry = 0
    /\ \A p \in Callers : apc[p] = "done"
    /\ nRefilled >= NCallers - 1

\* C9: with the clock advancing, timers firing and finitely many competing
\* calls, an acquire() call that had to wait eventually returns.
C9_AcquireReturns ==
    \A p \in Callers : (apc[p] = "sleeping") ~> (apc[p] = "done")

\* Every acquire() caller returned although all tryAcquire() calls competed
\* and the bucket had to be refilled.
C9_Witness ==
    /\ \A p \in Callers : apc[p] = "done"
    /\ nTry = MaxTry
    /\ nAdmits > capacity
    /\ nRefilled > 0

\* C14: after the refill, tryAcquire() returns true exactly when a token
\* is there and minDelayMs is not configured or at least minDelayMs passed
\* since lastAcquire (which is 0 until the first admission); a true return
\* takes exactly one token and sets lastAcquire to now.
C14_TryAcquireDecision ==
    [][TryAcquire =>
         LET r == refill
             spaced == \/ config.minDelayMs = 0
                       \/ now - lastAcquire >= config.minDelayMs
             admit == r.tokens >= 1 /\ spaced
         IN /\ ret' = [op |-> "tryAcquire", val |-> admit]
            /\ admit => /\ tokens' = r.tokens - 1
                        /\ lastAcquire' = now
                        /\ nAdmits' = nAdmits + 1]_vars

\* tryAcquire() was just denied for spacing alone: an admission was granted
\* less than minDelayMs ago and a token is left.
C14_Witness ==
    /\ ret.op = "tryAcquire"
    /\ ret.val = FALSE
    /\ config.minDelayMs > 0
    /\ lastAdmitAt >= 0
    /\ now - lastAdmitAt < config.minDelayMs
    /\ tokens >= 1
    /\ \A p \in Callers : apc[p] = "idle"

\* C15: a tryAcquire() that returns false leaves lastAcquire as it was and
\* tokens at the value refill() produced: no token is taken, no admission
\* is granted.
C15_DenialFrame ==
    [][(TryAcquire /\ ret'.op = "tryAcquire" /\ ret'.val = FALSE) =>
         /\ lastAcquire' = lastAcquire
         /\ tokens' = refill.tokens
         /\ nAdmits' = nAdmits
         /\ lastAdmitAt' = lastAdmitAt]_vars

\* A denial for spacing in a call whose refill() had restored the bucket:
\* the full bucket is still there.
C15_Witness ==
    /\ ret.op = "tryAcquire"
    /\ ret.val = FALSE
    /\ config.minDelayMs > 0
    /\ nRefilled > 0
    /\ lastRefill = now
    /\ tokens = capacity
    /\ lastAdmitAt >= 0
    /\ \A p \in Callers : apc[p] = "idle"

\* C16: getTokens() never lowers tokens, changes neither lastAcquire nor
\* the admissions, and returns the count refill() produced; that count is
\* what it leaves in tokens, and a refill() at the same clock value (that of
\* a tryAcquire() called next) finds it unchanged.
C16_GetTokensObserves ==
    [][(ret'.op = "getTokens" /\ GetTokens) =>
         /\ tokens' >= tokens
         /\ lastAcquire' = lastAcquire
         /\ nAdmits' = nAdmits
         /\ ret' = [op |-> "getTokens", val |-> refill.tokens]
         /\ tokens' = ret'.val
         /\ refill' = [tokens |-> tokens', lastRefill |-> lastRefill']]_vars

\* getTokens() returned a count above zero and below the capacity, after
\* admissions and a refill.
C16_Witness ==
    /\ ret.op = "getTokens"
    /\ ret.val = tokens
    /\ 0 < tokens
    /\ tokens < capacity
    /\ nAdmits > capacity
    /\ nRefilled > 0

\* C17: with tokensPerInterval = N and intervalMs = I, a window of length I
\* holds at most N admissions: of any N + 1 consecutive admissions, by
\* whichever method, the last comes at least I after the first.
C17_RateGuarantee ==
    Len(admitTimes) = capacity + 1 =>
        admitTimes[capacity + 1] - admitTimes[1] >= config.intervalMs

\* C22: every tryAcquire(), acquire() iteration and getTokens() first
\* refills: when at least intervalMs passed since lastRefill, the bucket gets
\* min(capacity, tokens + whole intervals * capacity) tokens, which is the
\* capacity however many intervals passed, and lastRefill becomes now;
\* otherwise tokens and lastRefill stay; then at most one token is taken.
C22_RefillAlgorithm ==
    [][(now' = now) =>
         LET elapsed == now - lastRefill
             refilled == tokens + (nRefilled' - nRefilled)
         IN /\ IF elapsed >= config.intervalMs
               THEN /\ refilled = Min(capacity,
                          tokens + (elapsed \div config.intervalMs) * capacity)
                    /\ refilled = capacity
                    /\ lastRefill' = now
               ELSE /\ refilled = tokens
                    /\ lastRefill' = lastRefill
            /\ tokens' = refilled - (nAdmits' - nAdmits)]_vars

\* The emptied bucket was refilled in a call made a quarter of an interval
\* after the refill fell due: lastRefill is the time of that call.
C22_Witness ==
    /\ config.intervalMs = 200
    /\ capacity = MaxCapacity
    /\ nRefilled = capacity
    /\ lastRefill = createdAt + 250
    /\ now = lastRefill

\* An acquire() iteration of caller p that passes the spacing test, finds no
\* token and suspends
EmptyBucketWait(p) ==
    /\ AcquireCall(p) \/ AcquireWake(p)
    /\ ~acquireTooSoon
    /\ apc'[p] = "sleeping"

\* intervalMs - (now - lastRefill), after the iteration's refill
timeUntilRefill == config.intervalMs - (now - lastRefill')

\* C23, as stated: an acquire() iteration that finds the spacing satisfied
\* and no token suspends for the lesser of the time until the next refill
\* and the floor wait.
C23_LesserWait ==
    [][\A p \in Callers :
         EmptyBucketWait(p) =>
            asleep'[p] = Min(timeUntilRefill, SleepFloorMs)]_vars

\* C23, amended: it suspends for the greater of the two, so the floor is
\* the shortest wait; then it retries.
C23_GreaterWait ==
    [][\A p \in Callers :
         EmptyBucketWait(p) =>
            /\ tokens' < 1
            /\ asleep'[p] = Max(timeUntilRefill, SleepFloorMs)
            /\ asleep'[p] >= timeUntilRefill
            /\ asleep'[p] >= SleepFloorMs]_vars

\* A caller found the bucket empty 50 ms after its refill and sleeps the
\* 150 ms left of the 200 ms interval, more than the floor.
C23_Witness ==
    /\ config.intervalMs = 200
    /\ tokens = 0
    /\ now - lastRefill = 50
    /\ \E p \in Callers : apc[p] = "sleeping" /\ asleep[p] = 150

\* C24: an acquire() iteration returns or suspends for a positive, bounded
\* time: on a spacing denial exactly minDelayMs - (now - lastAcquire), which
\* is above 0 and at most minDelayMs; on an empty bucket at least the
\* 100 ms floor and at most max(floor, intervalMs); and the next iteration
\* runs only when that timer has run out.
C24_PositiveBoundedWaits ==
    [][\A p \in Callers :
         /\ (AcquireCall(p) \/ AcquireWake(p)) =>
               \/ apc'[p] = "done"
               \/ /\ apc'[p] = "sleeping"
                  /\ asleep'[p] > 0
                  /\ IF config.minDelayMs # 0
                        /\ now - lastAcquire < config.minDelayMs
                     THEN /\ asleep'[p] = config.minDelayMs - (now - lastAcquire)
                          /\ asleep'[p] <= config.minDelayMs
                     ELSE /\ asleep'[p] >= SleepFloorMs
                          /\ asleep'[p] <= Max(SleepFloorMs, config.intervalMs)
         /\ (apc[p] = "sleeping" /\ apc'[p] # "sleeping") => asleep[p] = 0
         /\ (apc[p] = "sleeping" /\ asleep[p] > 0) =>
               (asleep'[p] = asleep[p] \/ now' > now)]_vars

\* With minDelayMs configured and satisfied, a caller found the bucket
\* empty halfway through the interval and sleeps; an admission preceded.
C24_Witness ==
    /\ config.minDelayMs > 0
    /\ config.intervalMs = 200
    /\ tokens = 0
    /\ lastAdmitAt = lastAcquire
    /\ now - lastAcquire = config.minDelayMs
    /\ \E p \in Callers : apc[p] = "sleeping" /\ asleep[p] = SleepFloorMs

\* C28: with a clock that never goes back, lastRefill never decreases and
\* never exceeds Date.now(), and lastAcquire, 0 until the first admission
\* and the time of the latest admission afterwards, never decreases.
C28_MonotoneTimestamps ==
    /\ [](/\ createdAt <= lastRefill
          /\ lastRefill <= now
          /\ lastAcquire <= now
          /\ lastAcquire = IF lastAdmitAt = -1 THEN 0 ELSE lastAdmitAt)
    /\ [][/\ now' >= now
          /\ lastRefill' >= lastRefill
          /\ lastAcquire' >= lastAcquire
          /\ lastAdmitAt' >= lastAdmitAt]_vars

\* Both timestamps moved more than once: admissions before and after a
\* refill, the latest after the latest refill, by acquire() and tryAcquire().
C28_Witness ==
    /\ createdAt < lastRefill
    /\ lastRefill < lastAcquire
    /\ lastAcquire < now
    /\ nAdmits > capacity
    /\ nTry > 0
    /\ \E p \in Callers : apc[p] = "done"

\* C30: two refills that add tokens are at least intervalMs apart, the first
\* of them at least intervalMs after construction; a window shorter than
\* intervalMs holds at most 2 * capacity admissions; and at most capacity
\* admissions are granted between two refills that add tokens, or before
\* the first one.
C30_BurstCeiling ==
    /\ [](/\ Len(burst.recent) <= 2 * capacity
          /\ burst.since <= capacity)
    /\ [][nRefilled' > nRefilled => burst.age >= config.intervalMs]_vars

\* The largest bucket was emptied just before a refill and again just
\* after it: 2 * capacity admissions lie within less than intervalMs.
C30_Witness ==
    /\ capacity = MaxCapacity
    /\ Len(burst.recent) = 2 * capacity
    /\ nRefilled = capacity
    /\ burst.age < config.intervalMs
    /\ burst.since = capacity
    /\ tokens = 0

\* No method of the limiter has admitted or been waited in yet.
fresh ==
    /\ nAdmits = 0
    /\ nTry = 0
    /\ \A p \in Callers : apc[p] = "idle"

\* C32: on a limiter on which nothing was admitted yet, with minDelayMs
\* configured, the first tryAcquire() returns true and the first acquire()
\* returns without suspending, whatever Date.now() is at that moment.
C32_FirstAdmissionNotSpaced ==
    [][fresh =>
         /\ TryAcquire => ret'.val = TRUE /\ nAdmits' = 1
         /\ \A p \in Callers :
              AcquireCall(p) => apc'[p] = "done" /\ nAdmits' = 1]_vars

\* C27: of two limiters of the same config that receive the same
\* tryAcquire() calls at the same clock values, one of them with getTokens()
\* calls in between, every tryAcquire() returns the same to both.
C27_GetTokensPureObserver ==
    [][TryAcquire => ret'.val = twin'.returned]_vars

(***************************************************************************)
(* TaskQueue                                                               *)
(***************************************************************************)

\* No RateLimiter
RLUnused ==
    /\ config = NoData
    /\ tokens = NoData
    /\ lastRefill = NoData
    /\ lastAcquire = NoData
    /\ apc = NoData
    /\ asleep = NoData
    /\ ret = NoData
    /\ createdAt = NoData
    /\ nTry = NoData
    /\ nAdmits = NoData
    /\ lastAdmitAt = NoData
    /\ nRefilled = NoData
    /\ admitTimes = NoData
    /\ burst = NoData
    /\ twin = NoData

\* constructor: concurrency = options.concurrency || 1,
\* delayMs = options.delayMs || 0
TQInit ==
    /\ RLUnused
    /\ SMUnused
    /\ HBUnused
    /\ now = 0
    /\ \E c \in 0..MaxConcurrency, d \in DelayOptions :
         options = [concurrency |-> IF c = 0 THEN 1 ELSE c,
                    delayMs |-> IF d = 0 THEN 0 ELSE d]
    /\ queue = << >>
    /\ running = 0
    /\ ist = [i \in Items |-> "new"]
    /\ handle = [i \in Items |-> [state |-> "pending", value |-> 0]]
    /\ outcome = [i \in Items |-> "none"]
    /\ dtimer = [i \in Items |-> 0]
    /\ nAdded = 0
    /\ started = << >>
    /\ dpc = [d \in Drainers |-> "idle"]
    /\ dsleep = [d \in Drainers |-> 0]
    /\ sinceDone = [i \in Items |-> -1]
    /\ sinceStart = [i \in Items |-> -1]

\* Fault: process() testing running > concurrency.
processOneTooMany(q, r) ==
    IF r > options.concurrency \/ Len(q) = 0
    THEN [queue |-> q, running |-> r, task |-> 0]
    ELSE [queue |-> Tail(q), running |-> r + 1, task |-> Head(q)]

\* Fault: process() taking the item with queue.pop().
processNewestFirst(q, r) ==
    IF r >= options.concurrency \/ Len(q) = 0
    THEN [queue |-> q, running |-> r, task |-> 0]
    ELSE [queue |-> SubSeq(q, 1, Len(q) - 1), running |-> r + 1,
          task |-> q[Len(q)]]

\* process(), lines 46-54, on queue q and running r: the queue and the
\* counter it leaves and the item whose wrapper it invokes (0: none).
\* queue.shift() of a non-empty queue is never undefined, so the else
\* branch of lines 62-64 is not reached.
process(q, r) ==
    IF r >= options.concurrency \/ Len(q) = 0
    THEN [queue |-> q, running |-> r, task |-> 0]
    ELSE [queue |-> Tail(q), running |-> r + 1, task |-> Head(q)]

\* The state after process() ran on (q, r); the wrapper it invokes calls
\* task() at once, so that item's work is executing when the job ends.
runProcess(q, r, st) ==
    LET pr == process(q, r) IN
    /\ queue' = pr.queue
    /\ running' = pr.running
    /\ ist' = IF pr.task = 0 THEN st ELSE [st EXCEPT ![pr.task] = "running"]
    /\ started' = IF pr.task = 0 THEN started ELSE Append(started, pr.task)

\* Fault: add() that pushes the wrapper and does not call process().
AddWithoutProcess ==
    /\ nAdded < MaxItems
    /\ nAdded' = nAdded + 1
    /\ queue' = Append(queue, nAdded + 1)
    /\ ist' = [ist EXCEPT ![nAdded + 1] = "queued"]
    /\ UNCHANGED <<running, started>>
    /\ UNCHANGED <<now, rlVars, admitTimes, burst, twin, smVars,
                   hbVars,
                   options, handle, outcome, dtimer, dpc, dsleep>>

\* add(task): push the wrapper, call process()
Add ==
    /\ nAdded < MaxItems
    /\ nAdded' = nAdded + 1
    /\ runProcess(Append(queue, nAdded + 1), running,
                  [ist EXCEPT ![nAdded + 1] = "queued"])
    /\ UNCHANGED <<now, rlVars, admitTimes, burst, twin, smVars,
                   hbVars,
                   options, handle, outcome, dtimer, dpc, dsleep>>

\* Fault: a wrapper without the catch: a failure of task() rejects the
\* promise process() awaits and process() ends at line 54.
wrapperLetsFailureThrough(ok) == IF ok THEN "settled" ELSE "aborted"

\* The wrapper add() pushed, lines 33-40: it catches the failure of task(),
\* so the promise process() awaits is fulfilled whether the work succeeded
\* (ok) or failed, and process() goes on to line 56.
wrapper(ok) == "settled"

\* Fault: a wrapper that resolves the caller's promise with the error.
settleAlwaysResolves(i, ok) == [state |-> "resolved", value |-> i]

\* The wrapper, lines 35-38: resolve(result) or reject(err) of the caller's
\* promise; item i's work yields the value i or fails with the error i.
settle(i, ok) ==
    IF ok THEN [state |-> "resolved", value |-> i]
    ELSE [state |-> "rejected", value |-> i]

\* The work of item i ends, successfully or not; its wrapper resumes.
WorkEnds(i) ==
    /\ ist[i] = "running"
    /\ \E ok \in BOOLEAN :
        /\ outcome' = [outcome EXCEPT ![i] = IF ok THEN "returned" ELSE "threw"]
        /\ handle' = [handle EXCEPT ![i] = settle(i, ok)]
        /\ ist' = [ist EXCEPT ![i] = wrapper(ok)]
    /\ UNCHANGED <<now, rlVars, admitTimes, burst, twin, smVars,
                   hbVars,
                   queue, running, options, dtimer, nAdded,
                   started, dpc, dsleep>>

\* Fault: running-- without the call of process() that follows it.
releaseSlotOnly(i) ==
    /\ queue' = queue
    /\ running' = running - 1
    /\ ist' = [ist EXCEPT ![i] = "finished"]
    /\ started' = started

\* process(), lines 60-61: running--, process()
releaseSlot(i) ==
    runProcess(queue, running - 1, [ist EXCEPT ![i] = "finished"])

\* Fault: process() without the pause of lines 56-58.
ProcessResumesNoDelay(i) ==
    /\ ist[i] = "settled"
    /\ releaseSlot(i)
    /\ UNCHANGED dtimer
    /\ UNCHANGED <<now, rlVars, admitTimes, burst, twin, smVars,
                   hbVars,
                   options, handle, outcome, nAdded, dpc, dsleep>>

\* process() resumes after `await task()`, lines 56-61.
ProcessResumes(i) ==
    /\ ist[i] = "settled"
    /\ IF options.delayMs > 0
       THEN /\ ist' = [ist EXCEPT ![i] = "delaying"]
            /\ dtimer' = [dtimer EXCEPT ![i] = options.delayMs]
            /\ UNCHANGED <<queue, running, started>>
       ELSE /\ releaseSlot(i)
            /\ UNCHANGED dtimer
    /\ UNCHANGED <<now, rlVars, admitTimes, burst, twin, smVars,
                   hbVars,
                   options, handle, outcome, nAdded, dpc, dsleep>>

\* Fault: the timer of line 57 resolving before its time.
DelayEndsEarly(i) ==
    /\ ist[i] = "delaying"
    /\ releaseSlot(i)
    /\ UNCHANGED <<now, rlVars, admitTimes, burst, twin, smVars,
                   hbVars,
                   options, handle, outcome, dtimer, nAdded, dpc,
                   dsleep>>

\* process() resumes after its delayMs timer, lines 60-61.
DelayEnds(i) ==
    /\ ist[i] = "delaying"
    /\ dtimer[i] = 0
    /\ releaseSlot(i)
    /\ UNCHANGED <<now, rlVars, admitTimes, burst, twin, smVars,
                   hbVars,
                   options, handle, outcome, dtimer, nAdded, dpc,
                   dsleep>>

\* Fault: drain() testing the queue length alone.
drainBusyQueueOnly == Len(queue) > 0

\* Fault: drain() testing queue.length >= 0.
drainBusyInclusive == Len(queue) >= 0 \/ running > 0

\* drain(), line 71: the loop condition
drainBusy == Len(queue) > 0 \/ running > 0

\* One test of drain()'s loop by caller d, up to its await or return.
drainIteration(d) ==
    /\ IF drainBusy
       THEN /\ dpc' = [dpc EXCEPT ![d] = "sleeping"]
            /\ dsleep' = [dsleep EXCEPT ![d] = DrainPollMs]
       ELSE /\ dpc' = [dpc EXCEPT ![d] = "resolved"]
            /\ UNCHANGED dsleep
    /\ UNCHANGED <<now, rlVars, admitTimes, burst, twin, smVars,
                   hbVars,
                   queue, running, options, ist, handle, outcome,
                   dtimer, nAdded, started>>

\* A caller calls drain(): the first test runs synchronously.
DrainCall(d) ==
    /\ dpc[d] = "idle"
    /\ drainIteration(d)

\* A drain() caller's polling timer has fired.
DrainWake(d) ==
    /\ dpc[d] = "sleeping"
    /\ dsleep[d] = 0
    /\ drainIteration(d)

\* Time passes; running timers count down.  TaskQueue never reads the
\* clock, so only the timers record the passage of time.
TQTick ==
    /\ \E d \in Steps :
        /\ \/ \E i \in Items : dtimer[i] > 0
           \/ \E c \in Drainers : dsleep[c] > 0
        /\ dtimer' = [i \in Items |-> Max(0, dtimer[i] - d)]
        /\ dsleep' = [c \in Drainers |-> Max(0, dsleep[c] - d)]
    /\ UNCHANGED <<now, rlVars, admitTimes, burst, twin, smVars,
                   hbVars,
                   queue, running, options, ist, handle, outcome,
                   nAdded, started, dpc>>

TQNext ==
    \/ Add /\ UNCHANGED <<sinceDone, sinceStart>>
    \/ \E i \in Items : WorkEnds(i) /\ UNCHANGED <<sinceDone, sinceStart>>
    \/ \E i \in Items : ProcessResumes(i) /\ UNCHANGED <<sinceDone, sinceStart>>
    \/ \E i \in Items : DelayEnds(i) /\ UNCHANGED <<sinceDone, sinceStart>>
    \/ \E d \in Drainers : DrainCall(d) /\ UNCHANGED <<sinceDone, sinceStart>>
    \/ \E d \in Drainers : DrainWake(d) /\ UNCHANGED <<sinceDone, sinceStart>>
    \/ TQTick /\ UNCHANGED <<sinceDone, sinceStart>>

TQSpec == TQInit /\ [][TQNext]_vars

\* The fair specification: every work item eventually completes, a resumed
\* process() runs, time passes and a timer's callback runs when it is due.
\* add() is called at most MaxItems times, so finitely many items are added.
\* The continuation of process() is a microtask and a due timer's callback
\* is the event loop's next job: both run before the clock's next step.
TQLiveTick ==
    /\ \A i \in Items : ist[i] # "settled"
    /\ \A i \in Items : ist[i] = "delaying" => dtimer[i] > 0
    /\ \A c \in Drainers : dpc[c] = "sleeping" => dsleep[c] > 0
    /\ TQTick

\* drain() changes nothing of the queue, so its callers do not influence
\* one another: in the fair specification one caller calls, at any moment.
LiveDrainers == {d \in Drainers : d <= 1}

TQLiveNext ==
    \/ Add /\ UNCHANGED <<sinceDone, sinceStart>>
    \/ \E i \in Items : WorkEnds(i) /\ UNCHANGED <<sinceDone, sinceStart>>
    \/ \E i \in Items : ProcessResumes(i) /\ UNCHANGED <<sinceDone, sinceStart>>
    \/ \E i \in Items : DelayEnds(i) /\ UNCHANGED <<sinceDone, sinceStart>>
    \/ \E d \in LiveDrainers : DrainCall(d) /\ UNCHANGED <<sinceDone, sinceStart>>
    \/ \E d \in Drainers : DrainWake(d) /\ UNCHANGED <<sinceDone, sinceStart>>
    \/ TQLiveTick /\ UNCHANGED <<sinceDone, sinceStart>>

TQLiveSpec ==
    /\ TQInit
    /\ [][TQLiveNext]_vars
    /\ WF_vars(TQLiveTick /\ UNCHANGED <<sinceDone, sinceStart>>)
    /\ \A i \in Items : WF_vars(WorkEnds(i) /\ UNCHANGED <<sinceDone, sinceStart>>)
    /\ \A i \in Items : WF_vars(ProcessResumes(i) /\ UNCHANGED <<sinceDone, sinceStart>>)
    /\ \A i \in Items : WF_vars(DelayEnds(i) /\ UNCHANGED <<sinceDone, sinceStart>>)
    /\ \A d \in Drainers : WF_vars(DrainWake(d) /\ UNCHANGED <<sinceDone, sinceStart>>)

\* The specification that measures the time since each completion.  Time
\* passes whether or not a timer runs; a step in which an item's work ends
\* starts that item's count.  drain() is left out: it changes nothing of the
\* queue.
AgeCapMs == SetMax(DelayOptions)

TQTimedTick(d) ==
    /\ dtimer' = [i \in Items |-> Max(0, dtimer[i] - d)]
    /\ UNCHANGED <<now, rlVars, admitTimes, burst, twin, smVars,
                   hbVars,
                   queue, running, options, ist, handle, outcome,
                   nAdded, started, dpc, dsleep>>

sinceDoneAfter(d) ==
    sinceDone' =
        [i \in Items |->
            IF outcome[i] = "none"
            THEN IF outcome'[i] = "none" THEN -1 ELSE 0
            ELSE Min(AgeCapMs, sinceDone[i] + d)]

\* A step in which an item's work begins starts that item's second count.
sinceStartAfter(d) ==
    sinceStart' =
        [i \in Items |->
            IF ist[i] # "running" /\ ist'[i] = "running" THEN 0
            ELSE IF sinceStart[i] < 0 THEN -1
            ELSE Min(AgeCapMs, sinceStart[i] + d)]

TQTimedNext ==
    \/ Add /\ sinceDoneAfter(0) /\ sinceStartAfter(0)
    \/ \E i \in Items : WorkEnds(i) /\ sinceDoneAfter(0) /\ sinceStartAfter(0)
    \/ \E i \in Items :
          ProcessResumes(i) /\ sinceDoneAfter(0) /\ sinceStartAfter(0)
    \/ \E i \in Items : DelayEnds(i) /\ sinceDoneAfter(0) /\ sinceStartAfter(0)
    \/ \E d \in Steps :
          TQTimedTick(d) /\ sinceDoneAfter(d) /\ sinceStartAfter(d)

TQTimedSpec == TQInit /\ [][TQTimedNext]_vars

(***************************************************************************)
(* TaskQueue: properties                                                   *)
(***************************************************************************)
concurrencyLimit == options.concurrency
Executing == {i \in Items : ist[i] = "running"}
HoldingSlot == {i \in Items : ist[i] \in {"running", "settled", "delaying"}}
Failed == {i \in Items : handle[i].state = "rejected"}

\* C2: in every reachable state 0 <= running <= concurrency, and at most
\* concurrency work items have started and not yet completed.
C2_ConcurrencyBound ==
    /\ 0 <= running
    /\ running <= concurrencyLimit
    /\ Cardinality(Executing) <= concurrencyLimit

\* The queue is saturated after a completion: every slot is taken, an item
\* waits, another has finished.
C2_Witness ==
    /\ running = concurrencyLimit
    /\ Cardinality(Executing) = concurrencyLimit
    /\ \E i \in Items : ist[i] = "finished"
    /\ \E i \in Items : ist[i] = "queued"

C5_FailureIsolation ==
    Failed # {} =>
        /\ running = Cardinality(HoldingSlot)
        /\ \A i \in Items :
             /\ handle[i].state # "pending" =>
                  /\ handle[i].value = i
                  /\ ist[i] \in {"settled", "delaying", "finished"}
             /\ ist[i] \in {"settled", "delaying", "finished"} =>
                  handle[i].state # "pending"
        /\ HoldingSlot = {} =>
             /\ queue = << >>
             /\ running = 0
             /\ \A i \in 1..nAdded : ist[i] = "finished"

\* One slot; the second of three items failed, the first and the third
\* resolved with their own results and the queue is idle again.
C5_Witness ==
    /\ concurrencyLimit = 1
    /\ handle[1] = [state |-> "resolved", value |-> 1]
    /\ handle[2] = [state |-> "rejected", value |-> 2]
    /\ handle[3] = [state |-> "resolved", value |-> 3]
    /\ \A i \in 1..3 : ist[i] = "finished"
    /\ running = 0

\* C10: drain() resolves only in a step that finds the queue empty and
\* running zero, with no added item queued, executing or in its delay.
C10_DrainSafety ==
    [][\A d \in Drainers :
         (dpc[d] # "resolved" /\ dpc'[d] = "resolved") =>
            /\ Len(queue) = 0
            /\ running = 0
            /\ \A i \in 1..nAdded : ist[i] = "finished"]_vars

\* A drain() resolved after every item had finished while another caller,
\* who polled when the queue was busy, has not woken up yet.
C10_Witness ==
    /\ dpc[1] = "resolved"
    /\ dpc[2] = "sleeping"
    /\ nAdded >= 2
    /\ \A i \in 1..nAdded : ist[i] = "finished"

\* C11: with finitely many items added and every work item eventually
\* completing, successfully or not, a drain() call that had to wait
\* eventually resolves; a call that did not have to wait resolved at once.
C11_DrainResolves ==
    \A d \in LiveDrainers : (dpc[d] = "sleeping") ~> (dpc[d] = "resolved")

\* Every item was added and started, the first one failed, the queue paces
\* its items with delayMs, and every drain() call has resolved.
C11_Witness ==
    /\ nAdded = MaxItems
    /\ handle[1].state = "rejected"
    /\ \A d \in LiveDrainers : dpc[d] = "resolved"
    /\ options.delayMs > 0
    /\ Len(started) = MaxItems

\* C12: a drain() call made when the queue is idle (nothing queued, nothing
\* holding a slot) resolves in the calling step, arms no polling timer and
\* leaves queue and running as they were; so does every further call.
C12_IdempotentDrain ==
    [][\A d \in Drainers :
         (DrainCall(d) /\ Len(queue) = 0 /\ running = 0) =>
            /\ dpc'[d] = "resolved"
            /\ dsleep' = dsleep
            /\ queue' = queue
            /\ running' = running
            /\ ist' = ist]_vars

\* After all the work was done, every caller in turn called drain() on the
\* idle queue and none of them holds a polling timer.
C12_Witness ==
    /\ nAdded = MaxItems
    /\ \A i \in Items : ist[i] = "finished"
    /\ \A d \in Drainers : dpc[d] = "resolved" /\ dsleep[d] = 0
    /\ queue = << >>
    /\ running = 0

\* C13: the work of an added item is invoked at most once and only after
\* its add(); its handle is settled only once the work has run, resolved
\* with the item's result if the work returned and rejected with the item's
\* error if it threw (never for another reason); a settled handle never
\* changes again; and add() can be called whatever the queue's length.
C13_OutcomeDelivery ==
    /\ [](/\ \A j, k \in DOMAIN started : started[j] = started[k] => j = k
          /\ \A k \in DOMAIN started : started[k] <= nAdded
          /\ \A i \in Items :
               /\ outcome[i] # "none" => \E k \in DOMAIN started : started[k] = i
               /\ handle[i] =
                    CASE outcome[i] = "none" -> [state |-> "pending", value |-> 0]
                      [] outcome[i] = "returned" -> [state |-> "resolved", value |-> i]
                      [] outcome[i] = "threw" -> [state |-> "rejected", value |-> i]
          /\ nAdded < MaxItems => ENABLED Add)
    /\ [][\A i \in Items :
            handle[i].state # "pending" => handle'[i] = handle[i]]_vars

\* One slot: add() was called three times while the first item's work was
\* executing, so two items wait; the first then threw and its handle is
\* rejected while the second executes and the third still waits.
C13_Witness ==
    /\ concurrencyLimit = 1
    /\ nAdded = 3
    /\ handle[1] = [state |-> "rejected", value |-> 1]
    /\ ist[2] = "running"
    /\ handle[2].state = "pending"
    /\ queue = <<3>>

\* The items whose work begins in the step
startedNow == {i \in Items : ist[i] # "running" /\ ist'[i] = "running"}

\* C25: when an item's work ends, its handle is settled in that step and
\* the item goes on holding its slot; running is decremented for it only
\* delayMs or more after that completion, in a step that runs process()
\* again, so the item started in that step starts no earlier; and with
\* concurrency 1 every start comes delayMs or more after the completion
\* of the item started before it.
C25_DelayBetweenCompletions ==
    /\ [](running = Cardinality(HoldingSlot))
    /\ [][\A i \in Items :
            /\ (outcome[i] = "none" /\ outcome'[i] # "none") =>
                  /\ handle[i].state = "pending"
                  /\ handle'[i].state # "pending"
                  /\ i \in HoldingSlot'
                  /\ running' = running
                  /\ startedNow = {}
            /\ (i \in HoldingSlot /\ i \notin HoldingSlot') =>
                  /\ handle[i].state # "pending"
                  /\ sinceDone[i] >= options.delayMs
                  /\ Len(queue) > 0 =>
                        /\ startedNow = {Head(queue)}
                        /\ running' = running
                  /\ Len(queue) = 0 => running' = running - 1
            /\ (i \in startedNow /\ concurrencyLimit = 1 /\ Len(started) > 0) =>
                  sinceDone[started[Len(started)]] >= options.delayMs]_vars

\* One slot and a delay: the second item is executing, started when the
\* first item's delay had run out, and the third waits.
C25_Witness ==
    /\ concurrencyLimit = 1
    /\ options.delayMs > 0
    /\ ist[1] = "finished"
    /\ sinceDone[1] = options.delayMs
    /\ ist[2] = "running"
    /\ queue = <<3>>

\* C26: with every started work item eventually completing and the delay
\* timers firing, every item added eventually starts executing and its
\* handle eventually settles, however the add() calls fall between the
\* completions.
C26_NoStrandedItems ==
    \A i \in Items :
        /\ (ist[i] = "queued") ~> (ist[i] = "running")
        /\ (ist[i] # "new") ~> (handle[i].state # "pending")

\* One slot and a delay: every item was added, the last of them while the
\* first was still executing; all have run, the second failed, and every
\* handle is settled.
C26_Witness ==
    /\ concurrencyLimit = 1
    /\ options.delayMs > 0
    /\ nAdded = MaxItems
    /\ started = [k \in 1..MaxItems |-> k]
    /\ \A i \in Items : ist[i] = "finished" /\ handle[i].state # "pending"
    /\ outcome[2] = "threw"
    /\ \A d \in Drainers : dpc[d] = "idle"

\* C29: between any two jobs (after an add() returned, after process()
\* ran following a completion) an item is queued only when every slot is
\* held: a non-empty queue implies running = concurrency, each unit of it
\* held by an item that executes or is in its completion handling.
C29_WorkConserving ==
    Len(queue) > 0 =>
        /\ running = concurrencyLimit
        /\ Cardinality(HoldingSlot) = concurrencyLimit

\* Two slots, an item queued: one slot is held by an executing item and
\* the other by an item in its delay after completion.
C29_Witness ==
    /\ concurrencyLimit = 2
    /\ Len(queue) > 0
    /\ Cardinality(Executing) = 1
    /\ \E i \in Items : ist[i] = "delaying" /\ dtimer[i] > 0

\* The items whose work began less than delayMs ago: the starts of every
\* window shorter than delayMs that ends at this moment
startedLately ==
    {i \in Items : sinceStart[i] >= 0 /\ sinceStart[i] < options.delayMs}

\* C31: with delayMs = d > 0, an item holds its slot from the start of its
\* work until d or more after its completion, so the items started within
\* less than d all hold a slot still, and a window shorter than d holds
\* the starts of at most concurrency items, whatever the durations of the
\* work and the moments of add().
C31_StartRateCeiling ==
    options.delayMs > 0 =>
        /\ \A i \in Items :
             (sinceStart[i] >= 0 /\ i \notin HoldingSlot) =>
                 sinceDone[i] >= options.delayMs
        /\ startedLately \subseteq HoldingSlot
        /\ Cardinality(startedLately) <= concurrencyLimit

\* Two slots and a delay: two items started within less than delayMs, one
\* after the other, the first of them has completed already, and a third
\* waits for a slot.
C31_Witness ==
    /\ concurrencyLimit = 2
    /\ options.delayMs > 0
    /\ startedLately = {1, 2}
    /\ sinceStart[1] > sinceStart[2]
    /\ sinceDone[1] >= 0
    /\ queue = <<3>>

(***************************************************************************)
(* StateManager                                                            *)
(*                                                                         *)
(* A file is absent, empty (opened for writing, nothing written yet),      *)
(* partial (some of a text written, or two writers' texts mixed) or        *)
(* complete (it holds the whole of one text).  fs.writeFile opens its      *)
(* target with flag 'w', which creates or truncates it, and then writes:   *)
(* these are distinct moments for every other reader and writer of the     *)
(* file and for a crash.                                                   *)
(***************************************************************************)

\* The states passed to set(): a partial one (the test's `{ a: 99 } as any`)
\* and a full one.
SMStates == {[a |-> 99], [a |-> 5, b |-> 6]}

\* The function passed to update(): it exchanges the two values.
swapAB(s) == [a |-> s.b, b |-> s.a]

\* JSON.stringify(state, null, 2) and JSON.parse: the states of the model
\* hold finite numbers and plain objects, which JSON writes and reads back
\* unchanged.
toJson(v) == [json |-> v]
parseJson(text) == text.json

\* Fault: the spread in the other order, { ...s, ...d }.
overlayDefaultsWin(d, s) ==
    [k \in DOMAIN d \cup DOMAIN s |-> IF k \in DOMAIN d THEN d[k] ELSE s[k]]

\* { ...d, ...s }
overlay(d, s) ==
    [k \in DOMAIN d \cup DOMAIN s |-> IF k \in DOMAIN s THEN s[k] ELSE d[k]]

\* get(), lines 33-41, on the file f as readFile finds it: ENOENT gives the
\* defaults, a complete text is parsed and laid over the defaults, and the
\* SyntaxError JSON.parse throws on an empty or cut text is thrown on.
getResult(f) ==
    IF f.state = "absent" THEN [kind |-> "value", result |-> overlay(defaults, NoData)]
    ELSE IF f.state = "complete"
    THEN [kind |-> "value", result |-> overlay(defaults, parseJson(f.data))]
    ELSE [kind |-> "error", result |-> NoData]

\* writeFile, flag 'w': the file once opened (created or truncated)
truncated(f) == [state |-> "empty", data |-> NoData]

\* writeFile writing the text of v, or the rest of it, into the file f it
\* opened: the outcomes the file system can produce.  If another writer
\* wrote since this one truncated the file, the two texts may end up mixed.
written(f, v) ==
    IF f.state = "empty" \/ (f.state = "partial" /\ f.data = toJson(v))
    THEN {[state |-> "complete", data |-> toJson(v)]}
    ELSE {[state |-> "complete", data |-> toJson(v)],
          [state |-> "partial", data |-> toJson(v)]}

smFrame == UNCHANGED <<now, rlVars, tqVars, admitTimes, burst, twin, hbVars,
                       defaults>>

\* constructor(path, defaults), with the defaults of the test
SMInit ==
    /\ RLUnused
    /\ TQUnused
    /\ HBUnused
    /\ now = 0
    /\ defaults = [a |-> 1, b |-> 2]
    /\ file = [state |-> "absent", data |-> NoData]
    /\ tmp = [state |-> "absent", data |-> NoData]
    /\ spc = [p \in SMCallers |-> "idle"]
    /\ sarg = [p \in SMCallers |-> NoData]
    /\ sret = [p \in SMCallers |-> [kind |-> "none", result |-> NoData]]

\* get(): readFile is started
SMGetCall(p) ==
    /\ spc[p] = "idle"
    /\ spc' = [spc EXCEPT ![p] = "get"]
    /\ UNCHANGED <<file, tmp, sarg, sret>>
    /\ smFrame

\* get(): readFile has read the file
SMGetReturns(p) ==
    /\ spc[p] = "get"
    /\ sret' = [sret EXCEPT ![p] = getResult(file)]
    /\ spc' = [spc EXCEPT ![p] = "idle"]
    /\ UNCHANGED <<file, tmp, sarg>>
    /\ smFrame

\* set(state), line 48: mkdir is started
SMSetCall(p) ==
    /\ spc[p] = "idle"
    /\ \E v \in SMStates : sarg' = [sarg EXCEPT ![p] = v]
    /\ spc' = [spc EXCEPT ![p] = "mkdir"]
    /\ UNCHANGED <<file, tmp, sret>>
    /\ smFrame

\* clear(): set({ ...defaults })
SMClearCall(p) ==
    /\ spc[p] = "idle"
    /\ sarg' = [sarg EXCEPT ![p] = overlay(defaults, NoData)]
    /\ spc' = [spc EXCEPT ![p] = "mkdir"]
    /\ UNCHANGED <<file, tmp, sret>>
    /\ smFrame

\* update(fn), line 58: get() is called
SMUpdateCall(p) ==
    /\ spc[p] = "idle"
    /\ spc' = [spc EXCEPT ![p] = "update"]
    /\ UNCHANGED <<file, tmp, sarg, sret>>
    /\ smFrame

\* update(fn), lines 58-60: get() is over; if it threw so does update(),
\* otherwise set(fn(current)) is called.
SMUpdateGot(p) ==
    /\ spc[p] = "update"
    /\ LET r == getResult(file) IN
       IF r.kind = "error"
       THEN /\ sret' = [sret EXCEPT ![p] = r]
            /\ spc' = [spc EXCEPT ![p] = "idle"]
            /\ UNCHANGED sarg
       ELSE /\ sarg' = [sarg EXCEPT ![p] = swapAB(r.result)]
            /\ spc' = [spc EXCEPT ![p] = "mkdir"]
            /\ UNCHANGED sret
    /\ UNCHANGED <<file, tmp>>
    /\ smFrame

\* set(), lines 48-50: mkdir is over, writeFile(tempPath, ...) is started
SMMkdirDone(p) ==
    /\ spc[p] = "mkdir"
    /\ spc' = [spc EXCEPT ![p] = "tmpOpen"]
    /\ UNCHANGED <<file, tmp, sarg, sret>>
    /\ smFrame

\* set(), line 50: writeFile has opened the temp file
SMTmpOpen(p) ==
    /\ spc[p] = "tmpOpen"
    /\ tmp' = truncated(tmp)
    /\ spc' = [spc EXCEPT ![p] = "tmpWrite"]
    /\ UNCHANGED <<file, sarg, sret>>
    /\ smFrame

\* set(), lines 50-51: the temp file is written; writeFile(this.path, ...)
\* is started
SMTmpWrite(p) ==
    /\ spc[p] = "tmpWrite"
    /\ tmp' \in written(tmp, sarg[p])
    /\ spc' = [spc EXCEPT ![p] = "open"]
    /\ UNCHANGED <<file, sarg, sret>>
    /\ smFrame

\* set(), line 51: writeFile has opened the state file
SMOpen(p) ==
    /\ spc[p] = "open"
    /\ file' = truncated(file)
    /\ spc' = [spc EXCEPT ![p] = "write"]
    /\ UNCHANGED <<tmp, sarg, sret>>
    /\ smFrame

\* set(), line 51: writeFile has written a first part of the text
SMWritePart(p) ==
    /\ spc[p] = "write"
    /\ file.state = "empty"
    /\ file' = [state |-> "partial", data |-> toJson(sarg[p])]
    /\ UNCHANGED <<tmp, spc, sarg, sret>>
    /\ smFrame

\* set(), lines 51-52: the state file is written; set() returns
SMWrite(p) ==
    /\ spc[p] = "write"
    /\ file' \in written(file, sarg[p])
    /\ sret' = [sret EXCEPT ![p] = [kind |-> "void", result |-> NoData]]
    /\ spc' = [spc EXCEPT ![p] = "idle"]
    /\ UNCHANGED <<tmp, sarg>>
    /\ smFrame

\* The process dies with calls under way; the files stay as they are.
SMCrash ==
    /\ \E p \in SMCallers : spc[p] # "idle"
    /\ spc' = [p \in SMCallers |-> "idle"]
    /\ sarg' = [p \in SMCallers |-> NoData]
    /\ sret' = [p \in SMCallers |-> [kind |-> "none", result |-> NoData]]
    /\ UNCHANGED <<file, tmp>>
    /\ smFrame

SMNext ==
    \/ \E p \in SMCallers : SMGetCall(p)
    \/ \E p \in SMCallers : SMGetReturns(p)
    \/ \E p \in SMCallers : SMSetCall(p)
    \/ \E p \in SMCallers : SMClearCall(p)
    \/ \E p \in SMCallers : SMUpdateCall(p)
    \/ \E p \in SMCallers : SMUpdateGot(p)
    \/ \E p \in SMCallers : SMMkdirDone(p)
    \/ \E p \in SMCallers : SMTmpOpen(p)
    \/ \E p \in SMCallers : SMTmpWrite(p)
    \/ \E p \in SMCallers : SMOpen(p)
    \/ \E p \in SMCallers : SMWritePart(p)
    \/ \E p \in SMCallers : SMWrite(p)
    \/ SMCrash

SMSpec == SMInit /\ [][SMNext]_vars

\* The specification of calls that do not overlap: one caller, who makes a
\* call when the one before it has returned, and a process that lives on.
SeqCaller == 1

SMSeqNext ==
    \/ SMGetCall(SeqCaller)
    \/ SMGetReturns(SeqCaller)
    \/ SMSetCall(SeqCaller)
    \/ SMClearCall(SeqCaller)
    \/ SMUpdateCall(SeqCaller)
    \/ SMUpdateGot(SeqCaller)
    \/ SMMkdirDone(SeqCaller)
    \/ SMTmpOpen(SeqCaller)
    \/ SMTmpWrite(SeqCaller)
    \/ SMOpen(SeqCaller)
    \/ SMWritePart(SeqCaller)
    \/ SMWrite(SeqCaller)

SMSeqSpec == SMInit /\ [][SMSeqNext]_vars

(***************************************************************************)
(* StateManager: properties                                                *)
(***************************************************************************)

\* C18: set() replaces the state atomically: whatever calls overlap and
\* wherever the process dies, the state path holds no file or the complete
\* text of one state, and no get() fails on an empty or cut text.
C18_AtomicReplace ==
    /\ file.state \in {"absent", "complete"}
    /\ \A p \in SMCallers : sret[p].kind # "error"

\* The single record of the sequential caller: the state last handed to
\* set(), by the caller, by update() or by clear(); NoData before any write
record == sarg[SeqCaller]

\* What get() is to return on the record rec: every key of the defaults and
\* of the record, with the record's value where it has one
overlaid(rec) ==
    [k \in DOMAIN defaults \cup DOMAIN rec |->
        IF k \in DOMAIN rec THEN rec[k] ELSE defaults[k]]

\* C21: with calls that do not overlap, get() returns the defaults overridden
\* key by key by the single record, which is nothing before the first
\* write, s after set(s), f applied to what get() returned before after
\* update(f), and the defaults after clear(); between calls the state file
\* holds that record.
C21_SingleRecord ==
    /\ [](spc[SeqCaller] = "idle" =>
            /\ record = NoData <=> file.state = "absent"
            /\ record # NoData => file = [state |-> "complete",
                                          data |-> toJson(record)])
    /\ [][/\ SMGetReturns(SeqCaller) =>
               sret'[SeqCaller] = [kind |-> "value", result |-> overlaid(record)]
          /\ SMSetCall(SeqCaller) => record' \in SMStates
          /\ SMUpdateGot(SeqCaller) => record' = swapAB(overlaid(record))
          /\ SMClearCall(SeqCaller) =>
               /\ record' = defaults
               /\ overlaid(record') = defaults
          /\ (spc[SeqCaller] \notin {"idle", "update"}) => record' = record]_vars

\* After set({ a: 99 }), update(swap) and get(): get() returned the default
\* b in a and the stored a in b.
C21_Witness ==
    /\ spc[SeqCaller] = "idle"
    /\ sret[SeqCaller] = [kind |-> "value", result |-> [a |-> 2, b |-> 99]]
    /\ record = [a |-> 2, b |-> 99]

(***************************************************************************)
(* HeartbeatManager                                                        *)
(*                                                                         *)
(* run() and resetCheck() are called one after the other: a call is made   *)
(* when the one before it has returned.  Time passes during a run.  The    *)
(* manager's StateManager is then used by one call at a time, so each of   *)
(* its get() and update() calls is taken as a whole.                       *)
(***************************************************************************)

\* The checks passed to run(): their ids are unique, and the first is due
\* twice as often as the second.
CheckList ==
    << [id |-> "a", intervalMs |-> 100], [id |-> "b", intervalMs |-> 200] >>

CheckIds == {CheckList[k].id : k \in DOMAIN CheckList}

HBStartTimes == {0, 200}      \* Date.now() at construction

\* run(), line 75: state.lastChecks[config.id] || 0
lastCheckOf(st, id) ==
    IF id \in DOMAIN st.lastChecks THEN st.lastChecks[id] ELSE 0

\* run(), lines 76-81: the check is not skipped
due(c) == ~(hbNow - lastCheckOf(hbState, c.id) < c.intervalMs)

\* { ...m, [k]: v }
put(m, k, v) == [x \in DOMAIN m \cup {k} |-> IF x = k THEN v ELSE m[x]]

\* run(), lines 87-93, and resetCheck(), lines 111-117: the function passed
\* to update(), applied to the state st
recorded(st, id, t) == [st EXCEPT !.lastChecks = put(@, id, t)]

\* The file a completed writeFile of the state v leaves
stored(v) == [state |-> "complete", data |-> toJson(v)]

\* Fault: run() without the try/catch around a check.
checkErrorUncaught == FALSE

\* run(), lines 83-101: a check that throws is caught and logged
checkErrorCaught == TRUE

\* constructor, lines 59-63
HBInit ==
    /\ RLUnused
    /\ TQUnused
    /\ now \in HBStartTimes
    /\ defaults = [lastChecks |-> NoData]
    /\ file = [state |-> "absent", data |-> NoData]
    /\ tmp = [state |-> "absent", data |-> NoData]
    /\ spc = NoData
    /\ sarg = NoData
    /\ sret = NoData
    /\ checks = CheckList
    /\ hbpc = "idle"
    /\ hbNow = 0
    /\ hbState = NoData
    /\ hbIdx = 0
    /\ hbAlerts = << >>
    /\ hbRet = [kind |-> "none", alerts |-> << >>]
    /\ hbOutcome = [id \in CheckIds |-> "none"]

hbFrame == UNCHANGED <<rlVars, tqVars, admitTimes, burst, twin, defaults, spc,
                       sarg, sret, checks>>

\* run(checks), lines 70-72: the state is read once, then Date.now()
HBRunCall ==
    /\ hbpc = "idle"
    /\ LET r == getResult(file) IN
       IF r.kind = "error"
       THEN /\ hbRet' = [kind |-> "rejected", alerts |-> << >>]
            /\ UNCHANGED <<hbpc, hbNow, hbState, hbIdx, hbAlerts>>
       ELSE /\ hbpc' = "running"
            /\ hbState' = r.result
            /\ hbNow' = now
            /\ hbIdx' = 1
            /\ hbAlerts' = << >>
            /\ UNCHANGED hbRet
    /\ UNCHANGED <<now, file, tmp, hbOutcome>>
    /\ hbFrame

\* run(), lines 74 and 104: the loop goes on to the next check, or run()
\* returns the alerts al
hbAdvance(al) ==
    /\ hbAlerts' = al
    /\ hbIdx' = hbIdx + 1
    /\ IF hbIdx < Len(checks)
       THEN /\ hbpc' = "running"
            /\ UNCHANGED hbRet
       ELSE /\ hbpc' = "idle"
            /\ hbRet' = [kind |-> "alerts", alerts |-> al]

\* run(), lines 74-103: the loop's body for the check at hbIdx
HBCheckStep ==
    /\ hbpc = "running"
    /\ LET c == checks[hbIdx]
           r == getResult(file)
       IN IF ~due(c)
          THEN /\ hbOutcome' = [hbOutcome EXCEPT ![c.id] = "skipped"]
               /\ hbAdvance(hbAlerts)
               /\ UNCHANGED <<file, tmp>>
          ELSE \E res \in {"true", "false", "threw"} :
                 IF res = "threw" \/ r.kind = "error"
                 THEN /\ hbOutcome' = [hbOutcome EXCEPT ![c.id] = "threw"]
                      /\ UNCHANGED <<file, tmp>>
                      /\ IF checkErrorCaught
                         THEN hbAdvance(hbAlerts)
                         ELSE /\ hbpc' = "idle"
                              /\ hbRet' = [kind |-> "rejected", alerts |-> << >>]
                              /\ UNCHANGED <<hbIdx, hbAlerts>>
                 ELSE /\ hbOutcome' = [hbOutcome EXCEPT ![c.id] = res]
                      /\ file' = stored(recorded(r.result, c.id, hbNow))
                      /\ tmp' = file'
                      /\ hbAdvance(IF res = "true"
                                   THEN Append(hbAlerts, c.id) ELSE hbAlerts)
    /\ UNCHANGED <<now, hbNow, hbState>>
    /\ hbFrame

\* resetCheck(checkId), lines 110-118
HBResetCheck(id) ==
    /\ hbpc = "idle"
    /\ LET r == getResult(file) IN
       IF r.kind = "error"
       THEN UNCHANGED <<file, tmp>>
       ELSE /\ file' = stored(recorded(r.result, id, 0))
            /\ tmp' = file'
    /\ UNCHANGED <<now, hbpc, hbNow, hbState, hbIdx, hbAlerts, hbRet,
                   hbOutcome>>
    /\ hbFrame

\* The clock advances.
HBTick ==
    /\ \E d \in Steps :
        /\ now + d <= HBMaxTime
        /\ now' = now + d
    /\ UNCHANGED <<file, tmp, hbpc, hbNow, hbState, hbIdx, hbAlerts, hbRet,
                   hbOutcome>>
    /\ hbFrame

HBNext ==
    \/ HBRunCall
    \/ HBCheckStep
    \/ \E id \in CheckIds : HBResetCheck(id)
    \/ HBTick

HBSpec == HBInit /\ [][HBNext]_vars

(***************************************************************************)
(* HeartbeatManager: properties                                            *)
(***************************************************************************)
\* The recorded last-check times in the state file
lastChecks == getResult(file).result.lastChecks

\* The ids, in the order of the list, of the checks whose outcome in o is
\* "true"
alertsOf(o) ==
    SelectSeq([k \in DOMAIN checks |-> checks[k].id], LAMBDA id : o[id] = "true")

\* C19: run() executes a check exactly when no last-check time is recorded
\* for it (it never ran, or resetCheck() set it back to 0) or the run's
\* start time minus the recorded time is at least intervalMs; and a check
\* that returned, true or false, has the run's start time recorded.
C19_RespectsIntervals ==
    [][HBCheckStep =>
         LET c == checks[hbIdx]
             noRecord == c.id \notin DOMAIN lastChecks \/ lastChecks[c.id] = 0
             dueByRecord == noRecord \/ hbNow - lastChecks[c.id] >= c.intervalMs
         IN /\ (hbOutcome'[c.id] # "skipped") <=> dueByRecord
            /\ hbOutcome'[c.id] \in {"true", "false"} =>
                 /\ c.id \in DOMAIN lastChecks'
                 /\ lastChecks'[c.id] = hbNow]_vars

\* C20: when a due check throws, run() does not reject and goes on with
\* the next check; the state file, and with it the failing check's recorded
\* time, stays as it was; a check that threw is executed again by the next
\* run; and a run that returns has evaluated every check of the list and
\* returns the alerts of exactly those that returned true.
C20_FailureIsolated ==
    [][HBCheckStep =>
         LET c == checks[hbIdx] IN
         /\ hbOutcome'[c.id] = "threw" =>
              /\ file' = file
              /\ hbRet'.kind # "rejected"
              /\ hbAlerts' = hbAlerts
              /\ hbIdx' = hbIdx + 1
              /\ hbIdx < Len(checks) => hbpc' = "running"
         /\ hbOutcome[c.id] = "threw" => hbOutcome'[c.id] # "skipped"
         /\ hbpc' = "idle" =>
              /\ hbIdx' = Len(checks) + 1
              /\ hbRet' = [kind |-> "alerts", alerts |-> alertsOf(hbOutcome')]]_vars

\* The first check threw in a run that went on to the second, which
\* returned true: run() returned that alert, and no time is recorded for
\* the first check.
C20_Witness ==
    /\ hbpc = "idle"
    /\ hbOutcome["a"] = "threw"
    /\ hbRet = [kind |-> "alerts", alerts |-> <<"b">>]
    /\ "a" \notin DOMAIN lastChecks
    /\ "b" \in DOMAIN lastChecks

====
